---- MODULE Spec2Model ----
(***************************************************************************)
(* A model of scramble_squares_solver.py: Layout, Symbol, Tile, Assignment, *)
(* Board and Game, with Game.solve as a state machine.                      *)
(*                                                                          *)
(* Python values are represented as follows.                                *)
(*   coordinate        <<x, y>>; "no Loc" (None) is the empty tuple         *)
(*   direction         a string; None is the string "None"                  *)
(*   direction_map     a sequence of [dir, vec] in dict insertion order     *)
(*   Symbol            [sym_type, side]; None is NoSym                      *)
(*   Tile              [tile_id, directions, symbols]; a Tile object is     *)
(*                     identified by its index in Game.tiles                *)
(*   Assignment object an index into heap, heap[i] = [loc, tile, rotation,  *)
(*                     validated]; Boards are sequences of such indices, so *)
(*                     that Boards share Assignment objects as in the code  *)
(***************************************************************************)
EXTENDS Integers, Sequences, FiniteSets, TLC

VARIABLES
    pc,             \* position of the driver: which call comes next
    err,            \* the exception that ended the last call, or "None"
    args,           \* the arguments of the calls: the puzzle definition
    Globals,        \* the Globals dataclass (module-level flags)
    layout,         \* the Layout object (game.layout)
    rare_dict,      \* Symbol._rare_dict, the class-level registry
    game,           \* the immutable part of Game: tiles, symbols, sympairs
    heap,           \* the Assignment objects created so far
    stack,          \* game.stack
    boards_visited, \* game.boards_visited
    board,          \* solve's local variable board
    boards,         \* solve's local variable boards (all-solutions mode)
    counters,       \* solve's locals trials, valid_trials, revisits
    rets,           \* what each finished call of solve returned, in order,
                    \* with the line of the return statement
    log,            \* history of the current call of solve, one entry per
                    \* pop: the board, what became of it, how many boards
                    \* were pushed and the stack depth afterwards
    out             \* result of the last pure query (Tile / Board methods)

vars == <<pc, err, args, Globals, layout, rare_dict, game, heap, stack,
          boards_visited, board, boards, counters, rets, log, out>>

----------------------------------------------------------------------------
(* Python's None in its various types *)

None == "None"

NoLoc == <<>>

NoSym == [sym_type |-> "None", side |-> "None"]

NoLayout == [coords |-> <<>>, direction_map |-> <<>>, direction_pairs |-> <<>>,
             dest |-> <<>>, inner_edges |-> 0]

NoGame == [tiles |-> <<>>, symbols |-> {}, sympairs |-> <<>>]

NoArgs == [coords |-> [kind |-> None, rows |-> 0, cols |-> 0, coords |-> <<>>],
           direction_map |-> [kind |-> None, map |-> <<>>],
           tiles |-> <<>>]

Max(S) == CHOOSE x \in S : \A y \in S : y <= x

Min(S) == CHOOSE x \in S : \A y \in S : x <= y

Range(s) == {s[i] : i \in 1..Len(s)}

----------------------------------------------------------------------------
(* Layout *)

\* the default direction_map of Layout.__init__
DefaultDirectionMap ==
    << [dir |-> "n", vec |-> <<0, -1>>], [dir |-> "s", vec |-> <<0, 1>>],
       [dir |-> "e", vec |-> <<1, 0>>],  [dir |-> "w", vec |-> <<-1, 0>>] >>

\* coords = [(i, j) for j in range(numrows) for i in range(numcols)]
GridCoords(numrows, numcols) ==
    [k \in 1..(numrows * numcols) |->
        <<(k - 1) % numcols, (k - 1) \div numcols>>]

\* the coords argument: a grid given by its rows and columns, or the
\* coordinates themselves
LayoutCoords(coords) ==
    IF coords.kind = "grid" THEN GridCoords(coords.rows, coords.cols)
    ELSE coords.coords

\* the direction_map argument: None stands for the default
LayoutDirectionMap(direction_map) ==
    IF direction_map.kind = None THEN DefaultDirectionMap
    ELSE direction_map.map

DirsOf(dm) == {dm[i].dir : i \in 1..Len(dm)}

VecOf(dm, d) == dm[CHOOSE i \in 1..Len(dm) : dm[i].dir = d].vec

\* reverse_dirvec = tuple(-1 * d for d in dirvec)
ReverseDirvec(v) == <<0 - v[1], 0 - v[2]>>

\* reverse_direction_map = {v: k for k, v in direction_map.items()}:
\* of several directions with one vector the last one is kept
ReverseHasKey(dm, v) == \E i \in 1..Len(dm) : dm[i].vec = v

ReverseDirectionMap(dm, v) ==
    dm[Max({i \in 1..Len(dm) : dm[i].vec = v})].dir

\* the loop that fills direction_pairs raises KeyError at the first
\* direction whose reversed vector is no key of reverse_direction_map
PairsKeyError(dm) ==
    \E i \in 1..Len(dm) : ~ReverseHasKey(dm, ReverseDirvec(dm[i].vec))

DirectionPairs(dm) ==
    [d \in DirsOf(dm) |-> ReverseDirectionMap(dm, ReverseDirvec(VecOf(dm, d)))]

TryCoord(coord, vec) == <<coord[1] + vec[1], coord[2] + vec[2]>>

\* a neighbour looked up against the direction's vector
DestOfBackward(coords, coord, vec) ==
    IF TryCoord(coord, ReverseDirvec(vec)) \in Range(coords)
    THEN TryCoord(coord, ReverseDirvec(vec))
    ELSE NoLoc

\* dest = loc_dict[try_coord] if try_coord in coords else None
DestOf(coords, coord, vec) ==
    IF TryCoord(coord, vec) \in Range(coords) THEN TryCoord(coord, vec)
    ELSE NoLoc

\* loc.set_dir(direction, dest) for every loc and every direction
DestMap(coords, dm) ==
    [c \in Range(coords) |->
        [d \in DirsOf(dm) |-> DestOf(coords, c, VecOf(dm, d))]]

\* a count of the undirected edges: each linked pair of locs once
InnerEdgesUndirected(coords, dm) ==
    Cardinality({e \in Range(coords) \X (1..Len(dm)) :
                    /\ DestOf(coords, e[1], dm[e[2]].vec) # NoLoc
                    /\ dm[e[2]].vec[1] + dm[e[2]].vec[2] > 0})

\* inner_edges += 1 if dest else 0, for every loc and every direction
InnerEdges(coords, dm) ==
    Cardinality({e \in Range(coords) \X (1..Len(dm)) :
                    DestOf(coords, e[1], dm[e[2]].vec) # NoLoc})

\* the Layout object that __init__ leaves behind when it does not raise
NewLayout(coords, dm) ==
    [coords |-> coords, direction_map |-> dm,
     direction_pairs |-> DirectionPairs(dm),
     dest |-> DestMap(coords, dm),
     inner_edges |-> InnerEdges(coords, dm)]

\* Layout.get_paired_dir: direction_pairs.get(dir, None)
get_paired_dir(lay, dir) ==
    IF dir \in DOMAIN lay.direction_pairs THEN lay.direction_pairs[dir]
    ELSE None

\* Loc.get_dest: direction_map.get(direction, None) of the Loc at coord
get_dest(lay, coord, direction) ==
    IF direction \in DOMAIN lay.dest[coord] THEN lay.dest[coord][direction]
    ELSE NoLoc

\* Layout.locs: loc_dict.values(), in insertion order
Locs(lay) == lay.coords

----------------------------------------------------------------------------
(* Symbol *)

\* Symbol.rare (getter): Symbol._rare_dict.get(self._sym, None); the value
\* is used for its truth only, and None is false
rare(rd, sym) == IF sym \in DOMAIN rd THEN rd[sym] ELSE FALSE

\* Symbol.rare (setter): Symbol._rare_dict[self._sym] = rare
set_rare(rd, sym, value) ==
    [s \in DOMAIN rd \cup {sym} |-> IF s = sym THEN value ELSE rd[s]]

\* Symbol.__init__ for each symbol of the tiles handed to Game, in order:
\* every construction stores rare=False under the symbol's identity
RECURSIVE CreateSymbols(_, _)
CreateSymbols(rd, syms) ==
    IF syms = <<>> THEN rd
    ELSE CreateSymbols(set_rare(rd, Head(syms), FALSE), Tail(syms))

----------------------------------------------------------------------------
(* Tile *)

\* list.index: the first position holding x (0-based, as in Python)
Index(s, x) == Min({i \in 1..Len(s) : s[i] = x}) - 1

\* Python list indexing by a 0-based index
At(s, i) == s[i + 1]

\* get_dir with the rotation taken the other way round
get_dir_backward(tile, symbol, rotation) ==
    At(tile.directions,
       (Index(tile.symbols, symbol) - rotation) % Len(tile.symbols))

\* Tile.get_dir
get_dir(tile, symbol, rotation) ==
    At(tile.directions,
       (Index(tile.symbols, symbol) + rotation) % Len(tile.symbols))

\* Tile.get_symbol
get_symbol(tile, direction, rotation) ==
    At(tile.symbols,
       (Index(tile.directions, direction) - rotation) % Len(tile.directions))

\* Tile.get_rotations: the list, in the order of the symbols' positions
RECURSIVE RotationsFrom(_, _, _, _)
RotationsFrom(tile, symbol, d, i) ==
    IF i >= Len(tile.symbols) THEN <<>>
    ELSE (IF At(tile.symbols, i) = symbol
          THEN <<(d - i) % Len(tile.directions)>> ELSE <<>>)
         \o RotationsFrom(tile, symbol, d, i + 1)

\* only the rotation for the first occurrence of the symbol
get_rotations_first(tile, symbol, dir) ==
    IF RotationsFrom(tile, symbol, Index(tile.directions, dir), 0) = <<>>
    THEN <<>>
    ELSE <<Head(RotationsFrom(tile, symbol, Index(tile.directions, dir), 0))>>

get_rotations(tile, symbol, dir) ==
    RotationsFrom(tile, symbol, Index(tile.directions, dir), 0)

----------------------------------------------------------------------------
(* Game.__init__ *)

RECURSIVE ConcatAll(_)
ConcatAll(ss) == IF ss = <<>> THEN <<>> ELSE Head(ss) \o ConcatAll(Tail(ss))

\* _symlist: every symbol instance of every tile, in order
Symlist(tiles) == ConcatAll([t \in 1..Len(tiles) |-> tiles[t].symbols])

\* _symfreq = Counter(_symlist)
Symfreq(tiles, sym) ==
    Cardinality({i \in 1..Len(Symlist(tiles)) : Symlist(tiles)[i] = sym})

\* symbols = set(_symlist)
SymbolsOf(tiles) == Range(Symlist(tiles))

\* the comparison made strict: _symfreq[sym] < inner_edges / len(symbols)
IsRareFrequencyStrict(lay, tiles, sym) ==
    Symfreq(tiles, sym) * Cardinality(SymbolsOf(tiles)) < lay.inner_edges

\* _symfreq[sym] <= inner_edges / len(symbols), the quotient being exact
IsRareFrequency(lay, tiles, sym) ==
    Symfreq(tiles, sym) * Cardinality(SymbolsOf(tiles)) <= lay.inner_edges

\* the USE_RARES loop: sym.rare = True for the symbols under the threshold
MarkRares(rd, lay, tiles) ==
    [s \in DOMAIN rd \cup SymbolsOf(tiles) |->
        IF s \in SymbolsOf(tiles) /\ IsRareFrequency(lay, tiles, s) THEN TRUE
        ELSE rd[s]]

\* symsides = set(sym.side for sym in symbols)
Symsides(tiles) == {sym.side : sym \in SymbolsOf(tiles)}

\* the candidates of next(pair for pair in symbols if ...)
Othersides(tiles, sym) ==
    {pair \in SymbolsOf(tiles) :
        sym.sym_type = pair.sym_type /\ sym.side # pair.side}

\* sympairs: with two sides there is at most one candidate per symbol
Sympairs(tiles) ==
    [sym \in {x \in SymbolsOf(tiles) : Othersides(tiles, x) # {}} |->
        CHOOSE pair \in Othersides(tiles, sym) : TRUE]

\* sympairs.get(sym, None)
SymPair(sym) ==
    IF sym \in DOMAIN game.sympairs THEN game.sympairs[sym] ELSE NoSym

----------------------------------------------------------------------------
(* Board: heap h holds the Assignment objects, b is Board.assignments *)

\* a lookup that finds no assignment on any location
DestassignNone(b, h, destloc) == 0

\* next((da for da in self.assignments if da.loc == destloc), None);
\* 0 stands for None
Destassign(b, h, destloc) ==
    IF \E i \in 1..Len(b) : h[b[i]].loc = destloc
    THEN b[Min({i \in 1..Len(b) : h[b[i]].loc = destloc})]
    ELSE 0

\* sympairs.get(sym, None) != othersym. With sym unpaired the left side is
\* None, Python falls back on Symbol.__eq__(othersym, None), and that reads
\* None._sym: AttributeError
PairMismatch(sym, othersym) ==
    IF sym \in DOMAIN game.sympairs THEN
        IF game.sympairs[sym] # othersym THEN "fail" ELSE "pass"
    ELSE "raise"

\* the body of validate's loop over tile.directions for one direction:
\* "fail" when it executes return False, "raise" when it raises, else "pass"
DirectionOutcome(b, h, a, direction) ==
    LET tile    == game.tiles[a.tile]
        sym     == get_symbol(tile, direction, a.rotation)
        destloc == get_dest(layout, a.loc, direction)
        da      == Destassign(b, h, destloc)
    IN  IF destloc = NoLoc
        THEN IF Globals.USE_RARES /\ rare(rare_dict, sym) THEN "fail"
             ELSE "pass"
        ELSE IF da = 0 THEN "pass"
        ELSE PairMismatch(sym,
                get_symbol(game.tiles[h[da].tile],
                           get_paired_dir(layout, direction), h[da].rotation))

\* the loop over tile.directions from the j-th direction on
RECURSIVE AssignmentOutcome(_, _, _, _)
AssignmentOutcome(b, h, a, j) ==
    LET directions == game.tiles[a.tile].directions
    IN  IF j > Len(directions) THEN "pass"
        ELSE IF DirectionOutcome(b, h, a, directions[j]) # "pass"
             THEN DirectionOutcome(b, h, a, directions[j])
        ELSE AssignmentOutcome(b, h, a, j + 1)

\* a validate that clears the flags of the Board when it returns False
RECURSIVE ValidateFromReset(_, _, _)
ValidateFromReset(b, h, k) ==
    IF k > Len(b) THEN [ok |-> TRUE, raised |-> FALSE, heap |-> h]
    ELSE IF h[b[k]].validated THEN ValidateFromReset(b, h, k + 1)
    ELSE IF AssignmentOutcome(b, h, h[b[k]], 1) = "fail"
         THEN [ok |-> FALSE, raised |-> FALSE,
               heap |-> [i \in DOMAIN h |->
                            IF \E j \in 1..Len(b) : b[j] = i
                            THEN [h[i] EXCEPT !.validated = FALSE]
                            ELSE h[i]]]
    ELSE IF AssignmentOutcome(b, h, h[b[k]], 1) = "raise"
         THEN [ok |-> FALSE, raised |-> TRUE, heap |-> h]
    ELSE ValidateFromReset(b, [h EXCEPT ![b[k]].validated = TRUE], k + 1)

\* a validate that sets the flag of an assignment before checking it
RECURSIVE ValidateFromEager(_, _, _)
ValidateFromEager(b, h, k) ==
    IF k > Len(b) THEN [ok |-> TRUE, raised |-> FALSE, heap |-> h]
    ELSE IF h[b[k]].validated THEN ValidateFromEager(b, h, k + 1)
    ELSE IF AssignmentOutcome(b, h, h[b[k]], 1) = "fail"
         THEN [ok |-> FALSE, raised |-> FALSE,
               heap |-> [h EXCEPT ![b[k]].validated = TRUE]]
    ELSE IF AssignmentOutcome(b, h, h[b[k]], 1) = "raise"
         THEN [ok |-> FALSE, raised |-> TRUE, heap |-> h]
    ELSE ValidateFromEager(b, [h EXCEPT ![b[k]].validated = TRUE], k + 1)

\* Board.validate from the k-th assignment on: the value returned (ok),
\* whether it raised instead, and the heap it leaves (the validated flags
\* are set in place)
RECURSIVE ValidateFrom(_, _, _)
ValidateFrom(b, h, k) ==
    IF k > Len(b) THEN [ok |-> TRUE, raised |-> FALSE, heap |-> h]
    ELSE IF h[b[k]].validated THEN ValidateFrom(b, h, k + 1)
    ELSE IF AssignmentOutcome(b, h, h[b[k]], 1) = "fail"
         THEN [ok |-> FALSE, raised |-> FALSE, heap |-> h]
    ELSE IF AssignmentOutcome(b, h, h[b[k]], 1) = "raise"
         THEN [ok |-> FALSE, raised |-> TRUE, heap |-> h]
    ELSE ValidateFrom(b, [h EXCEPT ![b[k]].validated = TRUE], k + 1)

validate(b, h) == ValidateFrom(b, h, 1)

\* Board.check_solved
check_solved(b, h) ==
    /\ \A i \in 1..Len(b) : h[b[i]].validated
    /\ \/ Len(b) = Len(game.tiles)
       \/ Len(b) = Len(Locs(layout))

\* every tile of the game, used by the board or not
AllTiles(b, h) == 1..Len(game.tiles)

\* the tiles of the game that the board does not use
UnassignedTiles(b, h) ==
    (1..Len(game.tiles)) \ {h[b[i]].tile : i \in 1..Len(b)}

\* all orders in which a set can be iterated
Orders(S) == {s \in [1..Cardinality(S) -> S] : Range(s) = S}

\* unassigned_tiles: sorted by tile_id when DETERMINISTIC, else a set, which
\* iterates in some order
TileOrders(b, h) ==
    IF Globals.DETERMINISTIC
    THEN {s \in Orders(UnassignedTiles(b, h)) :
            \A i, j \in 1..Len(s) :
                i < j => game.tiles[s[i]].tile_id <= game.tiles[s[j]].tile_id}
    ELSE Orders(UnassignedTiles(b, h))

\* the new Assignments that one direction of one assignment gives rise to
EdgeChildren(b, h, a, direction, order) ==
    LET tile     == game.tiles[a.tile]
        destloc  == get_dest(layout, a.loc, direction)
        sym      == get_symbol(tile, direction, a.rotation)
        otherdir == get_paired_dir(layout, direction)
        othersym == SymPair(sym)
        rots(t)  == get_rotations(game.tiles[order[t]], othersym, otherdir)
    IN  IF destloc = NoLoc THEN <<>>
        ELSE IF Destassign(b, h, destloc) # 0 THEN <<>>
        ELSE IF othersym = NoSym THEN <<>>
        ELSE ConcatAll([t \in 1..Len(order) |->
                [r \in 1..Len(rots(t)) |->
                    [loc |-> destloc, tile |-> order[t],
                     rotation |-> rots(t)[r], validated |-> FALSE]]])

AssignmentChildren(b, h, a, order) ==
    ConcatAll([j \in 1..Len(game.tiles[a.tile].directions) |->
                EdgeChildren(b, h, a, game.tiles[a.tile].directions[j], order)])

\* the loop of extend_board with "break" in place of the raise
RECURSIVE ExtendFromLenient(_, _, _, _, _)
ExtendFromLenient(b, h, order, k, acc) ==
    IF k > Len(b) THEN [raised |-> FALSE, next |-> acc]
    ELSE IF ~h[b[k]].validated THEN [raised |-> FALSE, next |-> acc]
    ELSE ExtendFromLenient(b, h, order, k + 1,
                           acc \o AssignmentChildren(b, h, h[b[k]], order))

\* Board.extend_board from the k-th assignment on, next_boards holding acc:
\* whether ValueError is raised, and the new Assignment of each Board returned
RECURSIVE ExtendFrom(_, _, _, _, _)
ExtendFrom(b, h, order, k, acc) ==
    IF k > Len(b) THEN [raised |-> FALSE, next |-> acc]
    ELSE IF ~h[b[k]].validated THEN [raised |-> TRUE, next |-> <<>>]
    ELSE ExtendFrom(b, h, order, k + 1,
                    acc \o AssignmentChildren(b, h, h[b[k]], order))

\* extend_board that stops at an unvalidated assignment and returns the
\* boards collected before it
extend_board_lenient(b, h, order) == ExtendFromLenient(b, h, order, 1, <<>>)

extend_board(b, h, order) == ExtendFrom(b, h, order, 1, <<>>)

\* a key that keeps the order of insertion
FrozensetOrdered(b, h) == {<<i, h[b[i]]>> : i \in 1..Len(b)}

\* frozenset(self.assignments): Assignments hash and compare by value
\* (loc, tile, rotation, validated)
Frozenset(b, h) == {h[b[i]] : i \in 1..Len(b)}

\* Board.check_memo
check_memo(b, h, visited) == Frozenset(b, h) \in visited

\* Board.memoize
memoize(b, h, visited) == visited \cup {Frozenset(b, h)}

----------------------------------------------------------------------------
(* Bounds *)

\* solve is called at most MaxCalls times on a Game
MaxCalls == 2

\* random.shuffle is modelled for stacks of at most MaxShuffle Boards, and
\* for the first call of solve on a Game
MaxShuffle == 4

\* grids have 1..MaxGrid rows and 1..MaxGrid columns
MaxGrid == 3

\* direction maps given as a dict have at most MaxDirs directions
MaxDirs == 3

\* rotations passed to the Tile queries range over -MaxRot..MaxRot
MaxRot == 5

\* Boards built by hand hold at most MaxBoard assignments
MaxBoard == 3

----------------------------------------------------------------------------
(* The calls: Layout(...), Game(...), game.solve() *)

Front(s) == SubSeq(s, 1, Len(s) - 1)

Last(s) == s[Len(s)]

Reverse(s) == [i \in 1..Len(s) |-> s[Len(s) + 1 - i]]

NoOut == [op |-> None]

ZeroCounters == [trials |-> 0, valid_trials |-> 0, revisits |-> 0]

\* Layout.__init__(coords, direction_map)
LayoutInit ==
    /\ pc = "layout"
    /\ LET coords == LayoutCoords(args.coords)
           dm     == LayoutDirectionMap(args.direction_map)
       IN  IF PairsKeyError(dm)
           THEN /\ pc' = "error"
                /\ err' = "KeyError"
                /\ layout' = layout
           ELSE /\ pc' = "game"
                /\ err' = err
                /\ layout' = NewLayout(coords, dm)
    /\ UNCHANGED <<args, Globals, rare_dict, game, heap, stack, boards_visited,
                   board, boards, counters, rets, log, out>>

\* Game.__init__(layout, tiles); layout=None makes the default Layout()
GameInit ==
    /\ pc = "game"
    /\ LET lay == IF args.coords.kind = None
                  THEN NewLayout(GridCoords(3, 3), DefaultDirectionMap)
                  ELSE layout
           tiles == args.tiles
       IN  IF tiles = <<>>
           THEN /\ pc' = "error"
                /\ err' = "ValueError"
                /\ UNCHANGED <<layout, rare_dict, game>>
           ELSE /\ layout' = lay
                /\ rare_dict' = IF Globals.USE_RARES
                                THEN MarkRares(rare_dict, lay, tiles)
                                ELSE rare_dict
                /\ IF Cardinality(Symsides(tiles)) # 2
                   THEN /\ pc' = "error"
                        /\ err' = "ValueError"
                        /\ game' = game
                   ELSE /\ pc' = "ready"
                        /\ err' = err
                        /\ game' = [tiles |-> tiles,
                                    symbols |-> SymbolsOf(tiles),
                                    sympairs |-> Sympairs(tiles)]
    /\ UNCHANGED <<args, Globals, heap, stack, boards_visited, board, boards,
                   counters, rets, log, out>>

\* the (tile, rotation) pairs of the seeding loops, in order
SeedPairs ==
    ConcatAll([t \in 1..Len(game.tiles) |->
                [r \in 1..Len(game.tiles[t].directions) |->
                    [tile |-> t, rotation |-> r - 1]]])

\* the Assignments that seeding creates on loc
SeedAssignments(loc) ==
    [i \in 1..Len(SeedPairs) |->
        [loc |-> loc, tile |-> SeedPairs[i].tile,
         rotation |-> SeedPairs[i].rotation, validated |-> FALSE]]

\* the starting locations solve may choose
SeedLocs ==
    IF Globals.DETERMINISTIC THEN {Locs(layout)[1]} ELSE Range(Locs(layout))

\* the stack after seeding: stack.insert(0, board) for each seed, then
\* random.shuffle(stack) unless DETERMINISTIC
SeededStacks(h, st, n) ==
    LET seeded == [i \in 1..n |-> <<Len(h) + n + 1 - i>>] \o st
    IN  IF Globals.DETERMINISTIC THEN {seeded}
        ELSE {[i \in 1..Len(seeded) |-> seeded[p[i]]] :
                p \in Orders(1..Len(seeded))}

\* solve, from its first line to the head of the while loop
SolveSeed ==
    /\ pc = "ready"
    /\ Len(rets) < MaxCalls
    /\ \/ Globals.DETERMINISTIC
       \/ rets = <<>> /\ Len(stack) + Len(SeedPairs) <= MaxShuffle
    /\ IF Locs(layout) = <<>>
       THEN /\ pc' = "error"
            /\ err' = IF Globals.DETERMINISTIC THEN "StopIteration"
                      ELSE "IndexError"
            /\ UNCHANGED <<heap, stack, board>>
       ELSE /\ pc' = "loop"
            /\ err' = err
            /\ \E loc \in SeedLocs :
                 /\ heap' = heap \o SeedAssignments(loc)
                 /\ stack' \in SeededStacks(heap, stack, Len(SeedPairs))
                 /\ board' = <<Len(heap')>>
    /\ counters' = ZeroCounters
    /\ boards' = <<>>
    /\ log' = <<>>
    /\ UNCHANGED <<args, Globals, layout, rare_dict, game, boards_visited,
                   rets, out>>

\* the Boards that extend_board returns, given their new Assignments
NextBoards(b, h, next) == [i \in 1..Len(next) |-> b \o <<Len(h) + i>>]

\* a loop that records the solved board and goes on
NeverReturnsAtSolved(b, h) == FALSE

\* "return board" inside the loop, for a solved board in FIRST_ONLY mode
ReturnsAtSolved(b, h) == Globals.FIRST_ONLY /\ check_solved(b, h)

\* one pass of the while loop with order the iteration order of
\* unassigned_tiles
SolveIteration(order) ==
    LET b   == Last(stack)
        v   == validate(b, heap)
        e   == extend_board(b, v.heap, order)
        hit == Globals.MEMOIZE /\ check_memo(b, v.heap, boards_visited)
        solved == check_solved(b, v.heap)
        outcome == IF v.raised THEN "raised"
                   ELSE IF ~v.ok THEN "invalid"
                   ELSE IF hit THEN "revisit"
                   ELSE IF solved THEN "solved"
                   ELSE "extended"
        returns == v.ok /\ ~hit /\ ReturnsAtSolved(b, v.heap)
        extends == v.ok /\ ~hit /\ ~returns
    IN  /\ board' = b
        /\ counters' =
             [trials |-> counters.trials + 1,
              valid_trials |-> counters.valid_trials + (IF v.ok THEN 1 ELSE 0),
              revisits |-> counters.revisits + (IF v.ok /\ hit THEN 1 ELSE 0)]
        /\ boards_visited' = IF v.ok /\ ~hit /\ Globals.MEMOIZE
                             THEN memoize(b, v.heap, boards_visited)
                             ELSE boards_visited
        /\ boards' = IF v.ok /\ ~hit /\ solved /\ ~returns
                     THEN Append(boards, b) ELSE boards
        /\ IF v.raised \/ (extends /\ e.raised)
           THEN /\ pc' = "error"
                /\ err' = IF v.raised THEN "AttributeError" ELSE "ValueError"
                /\ heap' = v.heap
                /\ stack' = Front(stack)
                /\ rets' = rets
           ELSE /\ err' = err
                /\ heap' = IF extends THEN v.heap \o e.next ELSE v.heap
                /\ stack' = IF extends
                            THEN Front(stack) \o NextBoards(b, v.heap, e.next)
                            ELSE Front(stack)
                /\ pc' = IF returns THEN "ready" ELSE "loop"
                /\ rets' = IF returns
                           THEN Append(rets, [line |-> 412, kind |-> "Board",
                                              board |-> b, boards |-> <<>>])
                           ELSE rets
        /\ log' = Append(log, [board |-> b, outcome |-> outcome,
                               pushed |-> Len(stack') - Len(Front(stack)),
                               depth |-> Len(stack')])

SolveStep ==
    /\ pc = "loop"
    /\ stack # <<>>
    /\ \E order \in TileOrders(Last(stack), heap) : SolveIteration(order)
    /\ UNCHANGED <<args, Globals, layout, rare_dict, game, out>>

\* the while loop ends with the stack empty: the lines after the loop
SolveDrain ==
    /\ pc = "loop"
    /\ stack = <<>>
    /\ pc' = "ready"
    /\ rets' = Append(rets,
                      IF Globals.FIRST_ONLY
                      THEN [line |-> 419, kind |-> "Board", board |-> board,
                            boards |-> <<>>]
                      ELSE [line |-> 421, kind |-> "list", board |-> <<>>,
                            boards |-> boards])
    /\ UNCHANGED <<err, args, Globals, layout, rare_dict, game, heap, stack,
                   boards_visited, board, boards, counters, log, out>>

----------------------------------------------------------------------------
(* The puzzles the calls are made with *)

Sym(t, s) == [sym_type |-> t, side |-> s]

al == Sym("a", "l")

ar == Sym("a", "r")

bl == Sym("b", "l")

br == Sym("b", "r")

cl == Sym("c", "l")

cr == Sym("c", "r")

\* Tile(tile_id, directions, symbols)
Tile(id, directions, symbols) ==
    [tile_id |-> id, directions |-> directions, symbols |-> symbols]

\* the directions a Tile gets when none are given
DefaultDirections == <<"n", "e", "s", "w">>

Coords(cs) == [kind |-> "coords", rows |-> 0, cols |-> 0, coords |-> cs]

Grid(r, c) == [kind |-> "grid", rows |-> r, cols |-> c, coords |-> <<>>]

NoCoords == [kind |-> None, rows |-> 0, cols |-> 0, coords |-> <<>>]

DefaultMap == [kind |-> None, map |-> <<>>]

Map(dm) == [kind |-> "dict", map |-> dm]

\* direction_map_2x1 of the test suite
EWMap == Map(<< [dir |-> "e", vec |-> <<1, 0>>],
                [dir |-> "w", vec |-> <<-1, 0>>] >>)

\* a direction map whose only direction has no reciprocal
EMap == Map(<< [dir |-> "e", vec |-> <<1, 0>>] >>)

\* a direction map in which two directions share a delta
DupMap == Map(<< [dir |-> "a", vec |-> <<1, 0>>],
                 [dir |-> "b", vec |-> <<1, 0>>],
                 [dir |-> "c", vec |-> <<-1, 0>>] >>)

Puzzle(coords, dm, tiles) ==
    [coords |-> coords, direction_map |-> dm, tiles |-> tiles]

\* symbol lists of two-sided tiles (directions e, w)
PoolEW == {<<al, bl>>, <<br, ar>>, <<al, al>>, <<br, br>>}

\* every list of n tiles over PoolEW, with the tile_ids given
TilesEW(ids) ==
    {[i \in 1..Len(ids) |-> Tile(ids[i], <<"e", "w">>, f[i])] :
        f \in [1..Len(ids) -> PoolEW]}

\* four-sided tiles: T1..T4 fit a 2x2 grid in this order, unrotated
T1 == Tile(1, DefaultDirections, <<cl, al, bl, cl>>)

T2 == Tile(2, DefaultDirections, <<cl, cl, bl, ar>>)

T3 == Tile(3, DefaultDirections, <<br, al, cl, cl>>)

T4 == Tile(4, DefaultDirections, <<br, cl, cl, ar>>)

\* a tile that repeats a symbol: it fits beside T1 in two rotations
T5 == Tile(5, DefaultDirections, <<ar, cl, br, ar>>)

\* T4 with a partner for the symbol c/l, which the other tiles leave unpaired
T6 == Tile(6, DefaultDirections, <<br, cr, cl, ar>>)

\* three-sided tiles for the directions of DupMap
U1 == Tile(1, <<"a", "b", "c">>, <<cl, al, al>>)

U2 == Tile(2, <<"a", "b", "c">>, <<cl, cl, ar>>)

Puzzles ==
    {Puzzle(Coords(<< <<0, 0>>, <<1, 0>> >>), EWMap, t) :
        t \in TilesEW(<<1, 2>>)}
    \cup
    {Puzzle(Coords(<< <<0, 0>>, <<1, 0>>, <<2, 0>> >>), EWMap, t) :
        t \in {<<Tile(3, <<"e", "w">>, <<al, bl>>),
                 Tile(2, <<"e", "w">>, <<br, ar>>),
                 Tile(1, <<"e", "w">>, <<ar, bl>>)>>}}
    \cup
    {Puzzle(Coords(<< <<0, 0>>, <<1, 0>> >>), EWMap,
            <<Tile(1, <<"e", "w">>, <<al, ar>>)>>),
     Puzzle(Coords(<< <<0, 0>>, <<1, 0>> >>), EWMap, <<T1, T2>>),
     Puzzle(Coords(<< <<0, 0>>, <<1, 0>> >>), EWMap,
            <<Tile(1, <<"e", "w">>, <<al, bl>>),
              Tile(2, <<"e", "w">>, <<br, ar>>),
              Tile(3, <<"e", "w">>, <<ar, bl>>)>>),
     Puzzle(Coords(<< <<0, 0>>, <<1, 0>> >>), EWMap, <<>>),
     Puzzle(Coords(<< <<0, 0>>, <<1, 0>> >>), EMap,
            <<Tile(1, <<"e", "w">>, <<al, ar>>)>>),
     Puzzle(Coords(<<>>), EWMap, <<Tile(1, <<"e", "w">>, <<al, ar>>)>>),
     Puzzle(Coords(<< <<0, 0>>, <<1, 0>> >>), DupMap, <<U1, U2>>),
     Puzzle(Grid(1, 2), DefaultMap, <<T1, T5>>),
     Puzzle(Grid(2, 2), DefaultMap, <<T1, T2, T3>>),
     Puzzle(Grid(2, 2), DefaultMap, <<T3, T1, T4, T2>>),
     Puzzle(Grid(2, 2), DefaultMap, <<T1, T2, T3, T6>>),
     Puzzle(Grid(2, 2), DefaultMap, <<T6, T5, T1>>),
     Puzzle(NoCoords, DefaultMap, <<T1, T2>>)}

\* the number of Boards that seeding pushes
NumSeeds(tiles) ==
    Len(ConcatAll([t \in 1..Len(tiles) |-> tiles[t].directions]))

\* the Globals the calls run under; shuffling is kept to short stacks
GlobalsFor(tiles) ==
    {g \in [USE_RARES : BOOLEAN, MEMOIZE : BOOLEAN, FIRST_ONLY : BOOLEAN,
            DETERMINISTIC : BOOLEAN] :
        g.DETERMINISTIC \/ NumSeeds(tiles) <= MaxShuffle}

InitWith(puzzles) ==
    /\ args \in puzzles
    /\ Globals \in GlobalsFor(args.tiles)
    /\ pc = IF args.coords.kind = None THEN "game" ELSE "layout"
    /\ err = None
    /\ layout = NoLayout
    /\ rare_dict = CreateSymbols(<<>>, Symlist(args.tiles))
    /\ game = NoGame
    /\ heap = <<>>
    /\ stack = <<>>
    /\ boards_visited = {}
    /\ board = <<>>
    /\ boards = <<>>
    /\ counters = ZeroCounters
    /\ rets = <<>>
    /\ log = <<>>
    /\ out = NoOut

Init == InitWith(Puzzles)

Next == LayoutInit \/ GameInit \/ SolveSeed \/ SolveStep \/ SolveDrain

Spec == Init /\ [][Next]_vars

----------------------------------------------------------------------------
(* Properties of Game.solve *)

\* the (location, piece, rotation) assignments of a Board, in order
Placements(b) ==
    [i \in 1..Len(b) |-> <<heap[b[i]].loc, heap[b[i]].tile, heap[b[i]].rotation>>]

\* the pops of the current call that passed the solved-check
SolvedPops == {i \in 1..Len(log) : log[i].outcome = "solved"}

\* C1: when no popped board is solved, solve reports no solution: None in
\* FIRST_ONLY mode, the empty list otherwise
NoSolutionIsReported ==
    (pc = "ready" /\ rets # <<>> /\ SolvedPops = {}) =>
        IF Globals.FIRST_ONLY THEN Last(rets).kind = None
        ELSE Last(rets).kind = "list" /\ Last(rets).boards = <<>>

\* every assignment validated, every piece or every location assigned, and
\* across every link between two assigned locations the pairing map sends
\* the symbol shown on one side to the symbol shown on the other
EdgeConsistent(b) ==
    /\ \A i \in 1..Len(b) : heap[b[i]].validated
    /\ Len(b) = Len(game.tiles) \/ Len(b) = Len(Locs(layout))
    /\ \A i, j \in 1..Len(b) : \A d \in DirsOf(layout.direction_map) :
         get_dest(layout, heap[b[i]].loc, d) = heap[b[j]].loc =>
            LET sym == get_symbol(game.tiles[heap[b[i]].tile], d,
                                  heap[b[i]].rotation)
                othersym == get_symbol(game.tiles[heap[b[j]].tile],
                                       get_paired_dir(layout, d),
                                       heap[b[j]].rotation)
            IN  /\ sym \in DOMAIN game.sympairs
                /\ game.sympairs[sym] = othersym

\* C2: every Board that passed the solved-check (the one returned from
\* inside the loop, the members of the accumulator) is edge-consistent
SolvedBoardsAreEdgeConsistent ==
    /\ \A i \in SolvedPops : EdgeConsistent(log[i].board)
    /\ \A i \in 1..Len(boards) : EdgeConsistent(boards[i])
    /\ \A n \in 1..Len(rets) :
         /\ rets[n].line = 412 => EdgeConsistent(rets[n].board)
         /\ \A i \in 1..Len(rets[n].boards) : EdgeConsistent(rets[n].boards[i])

\* C3: in deterministic FIRST_ONLY mode the n-th call of solve on a Game
\* returns the same assignments as the first call
RepeatedSolveReturnsSameBoard ==
    (Globals.DETERMINISTIC /\ Globals.FIRST_ONLY) =>
        \A n \in 1..Len(rets) :
            Placements(rets[n].board) = Placements(rets[1].board)

\* C4: in FIRST_ONLY mode the pop that passes the solved-check is the last
\* pop of the call: solve returns that board, nothing was pushed for it and
\* the stack is as the pop left it
FirstOnlyStopsAtFirstSolved ==
    Globals.FIRST_ONLY =>
        \A i \in SolvedPops :
            /\ i = Len(log)
            /\ pc = "ready"
            /\ rets # <<>>
            /\ Last(rets).line = 412
            /\ Last(rets).kind = "Board"
            /\ Last(rets).board = log[i].board
            /\ log[i].pushed = 0
            /\ Len(stack) = log[i].depth

\* solve has returned a solved board in FIRST_ONLY mode with boards left on
\* the stack
ReturnedWithStackLeft ==
    /\ Globals.FIRST_ONLY
    /\ SolvedPops # {}
    /\ stack # <<>>

\* the pops of the current call that were memoized
MemoizedPops ==
    {i \in 1..Len(log) : log[i].outcome \in {"solved", "extended"}}

\* the pops of the current call whose board validated
ValidatedPops ==
    {i \in 1..Len(log) : log[i].outcome \in {"solved", "extended", "revisit"}}

SamePlacements(b1, b2) == Range(Placements(b1)) = Range(Placements(b2))

\* C6: a validated board with the assignments of a memoized board, in any
\* order, has the same memo key, is reported a revisit and is dropped
\* without being solved-checked or extended
ReorderedBoardIsRevisit ==
    Globals.MEMOIZE =>
        \A i \in MemoizedPops : \A j \in ValidatedPops :
            (i < j /\ SamePlacements(log[i].board, log[j].board)) =>
                /\ Frozenset(log[i].board, heap) = Frozenset(log[j].board, heap)
                /\ log[j].outcome = "revisit"
                /\ log[j].pushed = 0

\* a board was dropped as a revisit of a board memoized in another order
ReorderedRevisitSeen ==
    /\ Globals.MEMOIZE
    /\ \E i \in MemoizedPops : \E j \in ValidatedPops :
         /\ i < j
         /\ SamePlacements(log[i].board, log[j].board)
         /\ Placements(log[i].board) # Placements(log[j].board)
         /\ log[j].outcome = "revisit"

\* Game(...) has returned and solve has not been called yet
JustConstructed == pc = "ready" /\ rets = <<>>

\* how often the symbol occurs on the sides of the Game's tiles
Occurs(s) ==
    Cardinality({e \in (1..Len(game.tiles)) \X (1..Len(Symlist(game.tiles))) :
                    /\ e[2] <= Len(game.tiles[e[1]].symbols)
                    /\ game.tiles[e[1]].symbols[e[2]] = s})

\* C13: with USE_RARES, right after construction a symbol of the Game is
\* rare exactly when its number of occurrences is at most inner_edges
\* divided by the number of distinct symbols (an integer count is at most
\* the exact quotient exactly when it is at most the quotient rounded down)
RareIffAtMostQuotient ==
    (JustConstructed /\ Globals.USE_RARES) =>
        \A s \in game.symbols :
            rare(rare_dict, s) <=>
                Occurs(s) <= layout.inner_edges \div Cardinality(game.symbols)

\* a Game whose symbol occurs exactly quotient times, and is rare
RareAtEquality ==
    /\ JustConstructed
    /\ Globals.USE_RARES
    /\ \E s \in game.symbols :
         /\ Occurs(s) * Cardinality(game.symbols) = layout.inner_edges
         /\ rare(rare_dict, s)

\* the Board holds no two assignments on one location or of one tile
OnePerLocAndTile(b) ==
    \A i, j \in 1..Len(b) :
        i # j => /\ heap[b[i]].loc # heap[b[j]].loc
                 /\ heap[b[i]].tile # heap[b[j]].tile

\* C15: every Board on the stack (the Boards that seeding and extend_board
\* produce are pushed there) and every Board popped holds at most one
\* assignment per location and at most one per tile
BoardsAreOnePerLocAndTile ==
    /\ \A k \in 1..Len(stack) : OnePerLocAndTile(stack[k])
    /\ \A k \in 1..Len(log) : OnePerLocAndTile(log[k].board)
    /\ OnePerLocAndTile(board)

\* extend_board has pushed a Board of three assignments while a tile and a
\* location were still free
ThreeAssignmentsOnStack ==
    \E k \in 1..Len(stack) :
        /\ Len(stack[k]) = 3
        /\ Len(game.tiles) > 3
        /\ Len(Locs(layout)) > 3

\* solve has returned a solved Board from inside the loop
SolvedBoardReturned ==
    /\ pc = "ready"
    /\ rets # <<>>
    /\ Last(rets).line = 412

\* C16: the while loop of solve ends in one of two ways: a solved board is
\* returned or the stack is empty
SearchTerminates ==
    (log # <<>> /\ pc # "loop") => (SolvedBoardReturned \/ stack = <<>>)

\* a step of the search: every Assignment object stays, a set flag stays
\* set, a new object is unvalidated unless the step validated it, and a flag
\* is set only for an assignment of the Board being validated, all of whose
\* directions passed validate's checks
FlagsStep ==
    /\ Len(heap') >= Len(heap)
    /\ \A i \in 1..Len(heap) :
         /\ heap[i].validated => heap'[i].validated
         /\ (~heap[i].validated /\ heap'[i].validated) =>
                /\ pc = "loop"
                /\ stack # <<>>
                /\ \E j \in 1..Len(Last(stack)) : Last(stack)[j] = i
                /\ \A d \in Range(game.tiles[heap[i].tile].directions) :
                     DirectionOutcome(Last(stack), heap, heap[i], d) = "pass"
    /\ \A i \in (Len(heap) + 1)..Len(heap') : ~heap'[i].validated

\* C19: no validated flag goes from True to False, and a flag is set only
\* by a validate that has checked every direction of the assignment, also
\* for the Assignment objects that a Board shares with its children
FlagsOnlyRiseAfterFullCheck == [][FlagsStep]_vars

\* two Boards on the stack share an Assignment object that is validated
SharedValidatedAssignment ==
    \E k1, k2 \in 1..Len(stack) :
        /\ k1 # k2
        /\ \E j1 \in 1..Len(stack[k1]), j2 \in 1..Len(stack[k2]) :
             /\ stack[k1][j1] = stack[k2][j2]
             /\ heap[stack[k1][j1]].validated

\* C20: extend_board on a Board that passed the solved-check returns no
\* children, be it solved by its locations or by its tiles, and the loop
\* pushes nothing for it
SolvedBoardHasNoChildren ==
    \A i \in SolvedPops :
        /\ log[i].pushed = 0
        /\ check_solved(log[i].board, heap)
        /\ \A order \in TileOrders(log[i].board, heap) :
             /\ ~extend_board(log[i].board, heap, order).raised
             /\ extend_board(log[i].board, heap, order).next = <<>>

\* in all-solutions mode a Board was solved by filling every location while
\* a tile was left over, and the loop went on to extend it
SolvedWithTileLeftOver ==
    /\ ~Globals.FIRST_ONLY
    /\ \E i \in SolvedPops :
         /\ Len(log[i].board) = Len(Locs(layout))
         /\ Len(log[i].board) < Len(game.tiles)

\* the locations that can be reached from the locations in S along the
\* directions of the layout
RECURSIVE ReachableFrom(_)
ReachableFrom(S) ==
    LET step == S \cup {get_dest(layout, c, d) :
                          c \in S, d \in DirsOf(layout.direction_map)}
        next == step \ {NoLoc}
    IN  IF next = S THEN S ELSE ReachableFrom(next)

\* the layout has a location, and every location can be reached from the
\* first one
Connected ==
    /\ Locs(layout) # <<>>
    /\ ReachableFrom({Locs(layout)[1]}) = Range(Locs(layout))

\* the complete configurations: a tile and a rotation of it for each
\* location, no tile on two locations; each is a list of fresh Assignments
\* in the order of the locations
CompleteConfigurations ==
    LET m == Len(Locs(layout))
        n == Len(game.tiles)
        maxrot == Max({0} \cup {Len(game.tiles[t].directions) : t \in 1..n})
    IN  {[i \in 1..m |-> [loc |-> Locs(layout)[i], tile |-> f[i],
                          rotation |-> r[i], validated |-> FALSE]] :
            f \in {g \in [1..m -> 1..n] :
                     \A i, j \in 1..m : i # j => g[i] # g[j]},
            r \in [1..m -> 0..(maxrot - 1)]}

\* Board(game, c).validate() returns True for the fresh Assignments c
Accepted(c) ==
    /\ \A i \in 1..Len(c) :
         c[i].rotation < Len(game.tiles[c[i].tile].directions)
    /\ validate([i \in 1..Len(c) |-> i], c).ok

\* the first call of solve on the Game is over: it returned or it raised
\* after seeding the stack
FirstCallOver ==
    \/ pc = "ready" /\ Len(rets) = 1
    \/ pc = "error" /\ rets = <<>> /\ log # <<>>

\* C21: in all-solutions mode with MEMOIZE, on a connected layout with at
\* least as many tiles as locations, the first call of solve on a Game
\* returns a list that holds every complete configuration validate accepts
\* and no two Boards with the same set of assignments
AllSolutionsReturnedOnce ==
    (/\ FirstCallOver
     /\ ~Globals.FIRST_ONLY
     /\ Globals.MEMOIZE
     /\ Connected
     /\ Len(game.tiles) >= Len(Locs(layout))) =>
        /\ rets # <<>>
        /\ rets[1].kind = "list"
        /\ \A c \in CompleteConfigurations :
             Accepted(c) =>
                \E k \in 1..Len(rets[1].boards) :
                    Range(Placements(rets[1].boards[k]))
                        = {<<c[i].loc, c[i].tile, c[i].rotation>> :
                             i \in 1..Len(c)}
        /\ \A k1, k2 \in 1..Len(rets[1].boards) :
             k1 # k2 => Frozenset(rets[1].boards[k1], heap)
                            # Frozenset(rets[1].boards[k2], heap)

----------------------------------------------------------------------------
(* Layout on its own: Layout(coords, direction_map) for many arguments *)

\* the Globals dataclass as the module defines it
DefaultGlobals ==
    [USE_RARES |-> TRUE, MEMOIZE |-> TRUE, FIRST_ONLY |-> TRUE,
     DETERMINISTIC |-> TRUE]

\* names for the directions of a dict, in insertion order
DirNames == <<"n", "s", "e", "w", "ne", "sw">>

\* the vectors the directions of a dict are drawn from
Vecs == {<<0, -1>>, <<0, 1>>, <<1, 0>>, <<-1, 0>>, <<1, 1>>}

\* every direction map of at most MaxDirs directions over Vecs
DirectionMaps ==
    UNION {{[i \in 1..n |-> [dir |-> DirNames[i], vec |-> f[i]]] :
                f \in [1..n -> Vecs]} : n \in 0..MaxDirs}

\* coords_2x2_diag of the test suite, on an integer lattice
DiagCoords == << <<0, 0>>, <<-1, -1>>, <<1, -1>>, <<0, -2>> >>

LayoutArgs ==
    {Puzzle(c, dm, <<>>) :
        c \in {Grid(r, k) : r \in 1..MaxGrid, k \in 1..MaxGrid}
              \cup {Coords(<< <<0, 0>>, <<1, 0>> >>), Coords(DiagCoords)},
        dm \in {DefaultMap, EWMap} \cup {Map(m) : m \in DirectionMaps}}

InitLayout ==
    /\ InitWith(LayoutArgs)
    /\ Globals = DefaultGlobals

SpecLayout == InitLayout /\ [][LayoutInit]_vars

\* the direction map of the call
ArgMap == LayoutDirectionMap(args.direction_map)

\* C8: the pairing is an involution where it is defined, and a name that is
\* no declared direction pairs with None
PairingIsInvolutive ==
    pc = "game" =>
        /\ \A d \in DirsOf(ArgMap) :
             get_paired_dir(layout, d) # None =>
                get_paired_dir(layout, get_paired_dir(layout, d)) = d
        /\ \A d \in Range(DirNames) \ DirsOf(ArgMap) :
             get_paired_dir(layout, d) = None

\* the directions whose reversed vector is the vector of no direction
Unreciprocated ==
    {d \in DirsOf(ArgMap) :
        ~ReverseHasKey(ArgMap, ReverseDirvec(VecOf(ArgMap, d)))}

\* C9: a direction without a reciprocal is no error: the Layout is built,
\* that direction pairs with None and the others with a direction of the
\* reversed vector
UnreciprocatedIsNoError ==
    (pc # "layout" /\ Unreciprocated # {}) =>
        /\ pc = "game"
        /\ \A d \in Unreciprocated : get_paired_dir(layout, d) = None
        /\ \A d \in DirsOf(ArgMap) \ Unreciprocated :
             /\ get_paired_dir(layout, d) \in DirsOf(ArgMap)
             /\ VecOf(ArgMap, get_paired_dir(layout, d))
                    = ReverseDirvec(VecOf(ArgMap, d))

\* a Layout(...) call on a grid with the default direction map has returned
DefaultGridBuilt ==
    /\ pc = "game"
    /\ args.coords.kind = "grid"
    /\ args.direction_map.kind = None

\* C10 as stated: inner_edges = 2*r*c - r - c
InnerEdgesCountUndirected ==
    DefaultGridBuilt =>
        layout.inner_edges =
            2 * args.coords.rows * args.coords.cols
                - args.coords.rows - args.coords.cols

\* C10, amended: inner_edges counts every link between two neighbours once
\* in each direction, 2 * (2*r*c - r - c)
InnerEdgesCountDirected ==
    DefaultGridBuilt =>
        layout.inner_edges =
            2 * (2 * args.coords.rows * args.coords.cols
                    - args.coords.rows - args.coords.cols)

\* the default 3x3 grid is built and has 24 inner edges
DefaultGrid3x3Built ==
    /\ DefaultGridBuilt
    /\ args.coords.rows = 3
    /\ args.coords.cols = 3
    /\ layout.inner_edges = 24

\* the (location, direction) pairs of the Layout that have a neighbour
DirectedLinks ==
    {e \in Range(Locs(layout)) \X DirsOf(ArgMap) :
        get_dest(layout, e[1], e[2]) # NoLoc}

\* C11: the neighbour of a location in direction d is the location at its
\* coordinate plus d's delta, or None when the layout has no such location;
\* inner_edges is the number of (location, direction) pairs that have a
\* neighbour: 2 for the two-location e/w layout, 24 for the default 3x3 grid
NeighboursAndDirectedLinks ==
    pc = "game" =>
        /\ \A c \in Range(Locs(layout)) : \A d \in DirsOf(ArgMap) :
             LET plus == <<c[1] + VecOf(ArgMap, d)[1], c[2] + VecOf(ArgMap, d)[2]>>
             IN  get_dest(layout, c, d) =
                    IF \E k \in 1..Len(Locs(layout)) : Locs(layout)[k] = plus
                    THEN plus ELSE NoLoc
        /\ layout.inner_edges = Cardinality(DirectedLinks)
        /\ (args.coords = Coords(<< <<0, 0>>, <<1, 0>> >>)
                /\ args.direction_map = EWMap) => layout.inner_edges = 2
        /\ (args.coords = Grid(3, 3) /\ args.direction_map = DefaultMap)
                => layout.inner_edges = 24

\* the two-location e/w layout is built: each location has one neighbour
TwoLocationLayoutBuilt ==
    /\ pc = "game"
    /\ args.coords = Coords(<< <<0, 0>>, <<1, 0>> >>)
    /\ args.direction_map = EWMap
    /\ get_dest(layout, <<0, 0>>, "e") = <<1, 0>>
    /\ get_dest(layout, <<0, 0>>, "w") = NoLoc
    /\ layout.inner_edges = 2

----------------------------------------------------------------------------
(* Tile on its own: get_symbol and get_dir for many tiles and rotations *)

\* the symbols the sides of these tiles are drawn from
SymbolPool == {al, ar, bl, br}

\* every four-sided tile and every two-sided tile over SymbolPool
TileArgs ==
    {Puzzle(NoCoords, DefaultMap, <<Tile(1, ds, f)>>) :
        ds \in {DefaultDirections}, f \in [1..4 -> SymbolPool]}
    \cup
    {Puzzle(NoCoords, DefaultMap, <<Tile(1, ds, f)>>) :
        ds \in {<<"e", "w">>}, f \in [1..2 -> SymbolPool]}

InitTile ==
    /\ InitWith(TileArgs)
    /\ Globals = DefaultGlobals

\* tile.get_dir(tile.get_symbol(d, r), r) for a direction d of the tile
TileRoundTrip ==
    /\ pc = "game"
    /\ \E d \in Range(args.tiles[1].directions), r \in (0 - MaxRot)..MaxRot :
         out' = [op |-> "round_trip", direction |-> d, rotation |-> r,
                 symbol |-> get_symbol(args.tiles[1], d, r),
                 dir |-> get_dir(args.tiles[1],
                                 get_symbol(args.tiles[1], d, r), r)]
    /\ UNCHANGED <<pc, err, args, Globals, layout, rare_dict, game, heap,
                   stack, boards_visited, board, boards, counters, rets, log>>

SpecTile == InitTile /\ [][TileRoundTrip]_vars

\* C7 as stated: get_dir(get_symbol(d, r), r) = d for every tile
RoundTripReturnsDirection ==
    out.op = "round_trip" => out.dir = out.direction

\* the positions of the tile's symbol list that hold the symbol
Occurrences(tile, symbol) ==
    {i \in 0..(Len(tile.symbols) - 1) : At(tile.symbols, i) = symbol}

\* C7, amended: get_dir(get_symbol(d, r), r) is a direction on which the
\* tile shows that symbol at rotation r; it is d exactly when get_symbol
\* read the first occurrence of the symbol, so always when the symbol is on
\* one side only
RoundTripReturnsSameSymbol ==
    out.op = "round_trip" =>
        LET tile == args.tiles[1]
            read == (Index(tile.directions, out.direction) - out.rotation)
                        % Len(tile.directions)
        IN  /\ out.dir \in Range(tile.directions)
            /\ get_symbol(tile, out.dir, out.rotation) = out.symbol
            /\ out.dir = out.direction <=>
                    read = Min(Occurrences(tile, out.symbol))
            /\ Cardinality(Occurrences(tile, out.symbol)) = 1 =>
                    out.dir = out.direction

\* a round trip at a rotation that is no multiple of four, on a symbol the
\* four-sided tile carries once, beside a symbol it carries twice
RoundTripOnUniqueSymbol ==
    /\ out.op = "round_trip"
    /\ out.rotation = 0 - 3
    /\ Len(args.tiles[1].symbols) = 4
    /\ Cardinality(Occurrences(args.tiles[1], out.symbol)) = 1
    /\ Cardinality(Range(args.tiles[1].symbols)) = 3
    /\ out.dir = out.direction

----------------------------------------------------------------------------
(* Board on its own: validate and extend_board called on Boards that are    *)
(* built by hand from Assignments, as Board(game, assignments) allows       *)

\* a line of three locations with the directions e and w, and three tiles;
\* in the second puzzle the symbol c/l has no partner, in the third a tile
\* shows a/r on both sides
BoardArgs ==
    {Puzzle(Coords(<< <<0, 0>>, <<1, 0>>, <<2, 0>> >>), EWMap,
            <<Tile(1, <<"e", "w">>, <<al, bl>>),
              Tile(2, <<"e", "w">>, <<br, ar>>),
              Tile(3, <<"e", "w">>, <<ar, bl>>)>>),
     Puzzle(Coords(<< <<0, 0>>, <<1, 0>>, <<2, 0>> >>), EWMap,
            <<Tile(1, <<"e", "w">>, <<al, cl>>),
              Tile(2, <<"e", "w">>, <<br, ar>>),
              Tile(3, <<"e", "w">>, <<ar, bl>>)>>),
     Puzzle(Coords(<< <<0, 0>>, <<1, 0>>, <<2, 0>> >>), EWMap,
            <<Tile(1, <<"e", "w">>, <<al, bl>>),
              Tile(2, <<"e", "w">>, <<ar, ar>>),
              Tile(3, <<"e", "w">>, <<br, ar>>)>>)}

InitBoard ==
    /\ InitWith(BoardArgs)
    /\ Globals.MEMOIZE /\ Globals.FIRST_ONLY /\ Globals.DETERMINISTIC

\* the lists of n new Assignment(loc, tile, rotation) with no location and
\* no tile twice
HandMadeAssignments(n) ==
    {a \in [1..n -> [loc : Range(Locs(layout)),
                     tile : 1..Len(game.tiles),
                     rotation : 0..1,
                     validated : {FALSE}]] :
        \A i, j \in 1..n :
            i # j => a[i].loc # a[j].loc /\ a[i].tile # a[j].tile}

\* board = Board(game, [Assignment(...), ...])
MakeBoard ==
    /\ pc = "ready"
    /\ pc' = "board"
    /\ \E n \in 0..MaxBoard :
         /\ n <= Len(game.tiles) /\ n <= Len(Locs(layout))
         /\ \E a \in HandMadeAssignments(n) :
              /\ heap' = a
              /\ board' = [i \in 1..n |-> i]
    /\ UNCHANGED <<err, args, Globals, layout, rare_dict, game, stack,
                   boards_visited, boards, counters, rets, log, out>>

\* the Boards made of some of the Assignment objects of b, in b's order
RECURSIVE SubBoards(_)
SubBoards(b) ==
    IF b = <<>> THEN {<<>>}
    ELSE SubBoards(Tail(b)) \cup {<<Head(b)>> \o s : s \in SubBoards(Tail(b))}

\* Board(game, s).validate() for a Board that shares Assignments with board
ValidateCall ==
    /\ pc = "board"
    /\ \E s \in SubBoards(board) :
         /\ heap' = validate(s, heap).heap
         /\ out' = [op |-> "validate", board |-> s,
                    ok |-> validate(s, heap).ok,
                    raised |-> validate(s, heap).raised, next |-> <<>>]
    /\ UNCHANGED <<pc, err, args, Globals, layout, rare_dict, game, stack,
                   boards_visited, board, boards, counters, rets, log>>

\* board.extend_board(): whether it raised ValueError, and the new
\* Assignment of each Board of the list it returned
ExtendCall ==
    /\ pc = "board"
    /\ \E order \in TileOrders(board, heap) :
         out' = [op |-> "extend_board", board |-> board, ok |-> FALSE,
                 raised |-> extend_board(board, heap, order).raised,
                 next |-> extend_board(board, heap, order).next]
    /\ UNCHANGED <<pc, err, args, Globals, layout, rare_dict, game, heap,
                   stack, boards_visited, board, boards, counters, rets, log>>

NextBoard ==
    LayoutInit \/ GameInit \/ MakeBoard \/ ValidateCall \/ ExtendCall

SpecBoard == InitBoard /\ [][NextBoard]_vars

\* the positions of a Board that hold an unvalidated Assignment
Unvalidated(b) == {i \in 1..Len(b) : ~heap[b[i]].validated}

\* C5: extend_board on a Board holding an unvalidated Assignment, wherever
\* in the list, raises and returns no list
ExtendUnvalidatedRaises ==
    (out.op = "extend_board" /\ Unvalidated(out.board) # {}) =>
        /\ out.raised
        /\ out.next = <<>>

\* extend_board raised at the second assignment of a Board whose first
\* assignment is validated and has an open edge that a tile fits
ExtendRaisedAfterCollecting ==
    /\ out.op = "extend_board"
    /\ out.raised
    /\ Unvalidated(out.board) = {2}
    /\ \E order \in TileOrders(out.board, heap) :
         AssignmentChildren(out.board, heap, heap[out.board[1]], order) # <<>>

\* C14: validate called again on the Board it was last called on returns
\* the same value; after True it changes no validated flag
ValidateIsIdempotent ==
    (out.op = "validate" /\ ~out.raised) =>
        /\ ~validate(out.board, heap).raised
        /\ validate(out.board, heap).ok = out.ok
        /\ out.ok => validate(out.board, heap).heap = heap

\* validate returned False on a Board after validating its first assignment
ValidateFailedPartway ==
    /\ out.op = "validate"
    /\ ~out.ok
    /\ Len(out.board) >= 2
    /\ heap[out.board[1]].validated
    /\ ~heap[out.board[2]].validated

\* the assignment of the Board on the location, or 0
Occupant(b, loc) ==
    IF \E i \in 1..Len(b) : heap[b[i]].loc = loc
    THEN b[CHOOSE i \in 1..Len(b) : heap[b[i]].loc = loc]
    ELSE 0

\* the assignment shows a rare symbol on a direction without a neighbour
\* location, or faces an occupied neighbour whose symbol on the paired
\* direction is not the partner of its own symbol
Conflicts(b, a) ==
    \E d \in Range(game.tiles[a.tile].directions) :
        LET sym  == get_symbol(game.tiles[a.tile], d, a.rotation)
            dest == get_dest(layout, a.loc, d)
        IN  IF dest = NoLoc THEN Globals.USE_RARES /\ rare(rare_dict, sym)
            ELSE /\ Occupant(b, dest) # 0
                 /\ LET n == heap[Occupant(b, dest)]
                        othersym == get_symbol(game.tiles[n.tile],
                                               get_paired_dir(layout, d),
                                               n.rotation)
                    IN  \/ sym \notin DOMAIN game.sympairs
                        \/ game.sympairs[sym] # othersym

\* a validate call: what it returns against the Board it was given
ValidateReturnsAsSpecified ==
    (pc = "board" /\ out'.op = "validate") =>
        /\ ~out'.raised
        /\ out'.ok = ~(\E k \in 1..Len(out'.board) :
                            /\ ~heap[out'.board[k]].validated
                            /\ Conflicts(out'.board, heap[out'.board[k]]))
        /\ out'.ok => \A k \in 1..Len(out'.board) :
                            heap'[out'.board[k]].validated

\* C17: validate returns False exactly when a not yet validated assignment
\* shows a rare symbol on a direction without neighbour location or faces an
\* occupied neighbour whose symbol is not the partner of its own; otherwise
\* it returns True and every assignment of the Board ends validated
ValidateFalseIffConflict == [][ValidateReturnsAsSpecified]_vars

\* the open edges of a Board: an assignment (by position) and a direction
\* of its tile that leads to a location without assignment
OpenEdges(b) ==
    {e \in (1..Len(b)) \X DirsOf(layout.direction_map) :
        /\ e[2] \in Range(game.tiles[heap[b[e[1]]].tile].directions)
        /\ get_dest(layout, heap[b[e[1]]].loc, e[2]) # NoLoc
        /\ Occupant(b, get_dest(layout, heap[b[e[1]]].loc, e[2])) = 0}

\* the new assignment c fits the open edge e of the Board: it lies on the
\* edge's neighbour location, its tile is unused, and at its rotation the
\* tile shows the partner of the edge's symbol on the paired direction
FitsEdge(b, e, c) ==
    LET a   == heap[b[e[1]]]
        sym == get_symbol(game.tiles[a.tile], e[2], a.rotation)
    IN  /\ c.loc = get_dest(layout, a.loc, e[2])
        /\ \A i \in 1..Len(b) : heap[b[i]].tile # c.tile
        /\ sym \in DOMAIN game.sympairs
        /\ get_symbol(game.tiles[c.tile], get_paired_dir(layout, e[2]),
                      c.rotation) = game.sympairs[sym]

\* every new unvalidated assignment there could be
Candidates ==
    {c \in [loc : Range(Locs(layout)), tile : 1..Len(game.tiles),
            rotation : 0..(Len(Symlist(game.tiles)) - 1),
            validated : {FALSE}] :
        c.rotation < Len(game.tiles[c.tile].directions)}

\* C18: extend_board on a fully validated Board returns one child per open
\* edge, unused tile and rotation at which the tile shows the partner of the
\* edge's symbol on the paired direction, and no other child
ExtendReturnsTheFittingChildren ==
    (out.op = "extend_board" /\ Unvalidated(out.board) = {}) =>
        /\ ~out.raised
        /\ \A i \in 1..Len(out.next) : out.next[i] \in Candidates
        /\ \A c \in Candidates :
             Cardinality({i \in 1..Len(out.next) : out.next[i] = c})
               = Cardinality({e \in OpenEdges(out.board) :
                                FitsEdge(out.board, e, c)})

\* extend_board returned two children that place one tile on one location
\* in two rotations
ExtendGaveTwoRotations ==
    /\ out.op = "extend_board"
    /\ Unvalidated(out.board) = {}
    /\ \E i, j \in 1..Len(out.next) :
         /\ out.next[i].loc = out.next[j].loc
         /\ out.next[i].tile = out.next[j].tile
         /\ out.next[i].rotation # out.next[j].rotation

----------------------------------------------------------------------------
(* Symbol._rare_dict is shared: Symbols and Games made after a Game *)

\* the puzzles whose Game the later constructions follow
RareArgs ==
    {Puzzle(Grid(2, 2), DefaultMap, <<T1, T5>>),
     Puzzle(Grid(1, 2), DefaultMap, <<T1, T5>>)}

InitRare ==
    /\ InitWith(RareArgs)
    /\ Globals.USE_RARES /\ Globals.DETERMINISTIC

\* Symbol(sym_type, side) for an identity the Game's tiles carry, made
\* between Game(...) and the first solve(): __init__ assigns
\* self.rare = False, which writes Symbol._rare_dict
NewSymbol ==
    /\ pc = "ready"
    /\ rets = <<>>
    /\ \E s \in game.symbols : rare_dict' = set_rare(rare_dict, s, FALSE)
    /\ UNCHANGED <<pc, err, args, Globals, layout, game, heap, stack,
                   boards_visited, board, boards, counters, rets, log, out>>

\* the arguments of another Game: the same Tile objects on the default 3x3
\* layout, or tiles made of new Symbol instances
OtherGames ==
    {[fresh |-> FALSE, coords |-> Grid(3, 3), tiles |-> args.tiles],
     [fresh |-> TRUE, coords |-> Grid(1, 2), tiles |-> <<T3, T6>>]}

\* Game(Layout(coords), tiles) for another puzzle, made between Game(...)
\* and the first solve(): the Symbols of new tiles are created first, then
\* Game.__init__ marks the rare ones of its own
OtherGame ==
    /\ pc = "ready"
    /\ rets = <<>>
    /\ \E p \in OtherGames :
         LET rd  == IF p.fresh
                    THEN CreateSymbols(rare_dict, Symlist(p.tiles))
                    ELSE rare_dict
             lay == NewLayout(LayoutCoords(p.coords), DefaultDirectionMap)
         IN  rare_dict' = IF Globals.USE_RARES
                          THEN MarkRares(rd, lay, p.tiles) ELSE rd
    /\ UNCHANGED <<pc, err, args, Globals, layout, game, heap, stack,
                   boards_visited, board, boards, counters, rets, log, out>>

NextRare ==
    \/ LayoutInit \/ GameInit \/ SolveSeed \/ SolveStep \/ SolveDrain
    \/ NewSymbol \/ OtherGame

SpecRare == InitRare /\ [][NextRare]_vars

\* a step that leaves the rarity of each of the Game's symbols as it was
RarityUnchanged ==
    pc \in {"ready", "loop"} =>
        \A s \in game.symbols : rare(rare_dict', s) = rare(rare_dict, s)

\* C12: once the Game is constructed, no operation changes the rarity that
\* its validation reads for any of its symbols
RarityIsFixed == [][RarityUnchanged]_vars

====
